---- MODULE Spec2Model ----
(***************************************************************************)
(* A model of the OllamaMCP repository:                                    *)
(*   - OllamaMCPChatbot (src/ollama_mcp_chatbot.py): the chatbot's fields, *)
(*     its coroutines initialize / chat / cleanup cut at their awaits, and *)
(*     the synchronous get_history / clear_history / get_available_tools;  *)
(*   - OllamaToolManager.process_prompt (src/ollama_tool_use.py);          *)
(*   - create_agents (src/ollama_mcp.py).                                  *)
(* Python's asyncio runs the code between two awaits of a coroutine        *)
(* without interruption, so every action below is one such stretch.        *)
(***************************************************************************)
EXTENDS Integers, Sequences, FiniteSets, TLC

\* ------------------------------------------------------------------ bounds

\* calls of the chatbot's methods started in one behaviour
MaxCalls == 3

\* The coroutines that may be in flight at once (callers of the chatbot).
Tasks == {1, 2}

\* None, for a field that holds an object identity otherwise (ids are >= 1).
None == 0

\* Identities of the stdio clients (one is created per run of initialize).
Ids == 1..MaxCalls

\* ---------------------------------------------------------------- messages

SystemMessage(c) == [role |-> "system", content |-> c]
HumanMessage(c)  == [role |-> "human",  content |-> c]
AIMessage(c)     == [role |-> "ai",     content |-> c]
ToolMessage(c)   == [role |-> "tool",   content |-> c]

\* The text of the configured system message.
SystemText == 1

\* Contents the agent produces in turn n: its final answer and a tool result.
\* The empty content (an assistant message that only requests a tool) is 0.
Answer(n)     == 10 * n + 1
ToolResult(n) == 10 * n + 2

\* What the agent adds to its input in turn n: nothing with content, a plain
\* answer, or a tool round-trip (request, tool result, answer).
AgentNew(n) ==
    { << AIMessage(0) >>,
      << AIMessage(Answer(n)) >>,
      << AIMessage(0), ToolMessage(ToolResult(n)), AIMessage(Answer(n)) >> }

AgentNews == UNION { AgentNew(n) : n \in 1..MaxCalls }

\* The capability lists load_mcp_tools may return.
ToolLists == { << >>, << "calculate" >> }

\* The field mcp_tools: None, or a list of tools.
NoTools == << >>
SomeTools(l) == << l >>

VARIABLES
    self,      \* the chatbot's fields
    owner,     \* ghost: for each message of self.memory, the chat call that appended it (0: initialize)
    tstate,    \* ghost: each stdio client's state: "none", "new", "open", "failed", "closed"
    sstate,    \* ghost: each ClientSession's state, likewise
    nclients,  \* ghost: stdio clients created so far
    nchats,    \* ghost: chat() calls started so far
    ncalls,    \* ghost: calls started so far
    pc,        \* per task: the await it is suspended at, or "idle"
    op,        \* per task: the operation it runs, "none" when idle
    msg,       \* per task: chat's argument, the number of the chat call
    history,   \* per task: chat's local variable history
    obj,       \* per task: the client or session whose method it awaits
    done       \* the call that ended last: its operation, how it ended, what it returned

bvars == << self, owner, tstate, sstate, nclients, nchats, ncalls, pc, op, msg, history, obj, done >>

\* process_prompt (src/ollama_tool_use.py)
VARIABLES
    tm_pc,         \* "idle", "waiting" (in ollama.chat) or "done"
    tm_roundtrips, \* requests this call of process_prompt sent to the backend
    tm_calls,      \* the reply's tool_calls
    tm_invoked,    \* the indices of the tool calls whose function was called, in call order
    tm_notfound,   \* the indices of the tool calls printed as 'Function ... not found'
    tm_result      \* how process_prompt ended: "None", "value", "error_text" or "raised"

tmvars == << tm_pc, tm_roundtrips, tm_calls, tm_invoked, tm_notfound, tm_result >>

\* create_agents (src/ollama_mcp.py)
VARIABLES
    ca_pc,      \* "idle", or "done" once create_agents has run
    ca_config,  \* config['mcpServers']: the entries in the file's order
    ca_result   \* how create_agents ended: raised or not, and the agents built, in order

cavars == << ca_pc, ca_config, ca_result >>

\* main of the interactive runner (src/run_ollama_mcp.py)
VARIABLES
    mn_pc,        \* where main is: "start", the await it is suspended at, "input", or "done"
    mn_init,      \* how chatbot.initialize() ended: "pending", "ok" or "failed"
    mn_out,       \* what main has printed, in order
    mn_inputs,    \* lines read from the user so far
    mn_cleanups   \* calls of chatbot.cleanup() so far

mnvars == << mn_pc, mn_init, mn_out, mn_inputs, mn_cleanups >>

vars == << bvars, tmvars, cavars, mnvars >>

\* What the actions of the chatbot, of process_prompt, of create_agents and of
\* main leave alone.
notbot == << tmvars, cavars, mnvars >>
nottool == << bvars, cavars, mnvars >>
notagents == << bvars, tmvars, mnvars >>
notmain == << bvars, tmvars, cavars >>

\* ------------------------------------------------------- results of a call

\* kind: "returned" (None), "raised" (an exception left the call), or what was
\* returned: chat's strings "not_ready" ("Chatbot is not ready. ..."),
\* "error_text" ("Error processing message: ...") and "content" (val: the
\* response content), or "list" (list: the list).
Returned    == [kind |-> "returned",   val |-> 0, list |-> << >>]
Raised      == [kind |-> "raised",     val |-> 0, list |-> << >>]
NotReady    == [kind |-> "not_ready",  val |-> 0, list |-> << >>]
ErrorText   == [kind |-> "error_text", val |-> 0, list |-> << >>]
Content(c)  == [kind |-> "content",    val |-> c, list |-> << >>]
ListResult(l) == [kind |-> "list",     val |-> 0, list |-> l]

\* chat returned a str
IsText(r) == r.kind \in {"not_ready", "error_text", "content"}

\* ---------------------------------------------------------- OllamaMCPChatbot

\* __init__: every handle None, ready False, an empty memory.
NewChatbot(sysmsg) ==
    [ system_message |-> sysmsg,
      memory      |-> << >>,
      chat_model  |-> None,
      mcp_client  |-> None,
      mcp_session |-> None,
      mcp_read    |-> None,
      mcp_write   |-> None,
      mcp_tools   |-> NoTools,
      agent       |-> None,
      ready       |-> FALSE ]

Init ==
    /\ self \in { NewChatbot(s) : s \in BOOLEAN }
    /\ owner = << >>
    /\ tstate = [i \in Ids |-> "none"]
    /\ sstate = [i \in Ids |-> "none"]
    /\ nclients = 0
    /\ nchats = 0
    /\ ncalls = 0
    /\ pc = [t \in Tasks |-> "idle"]
    /\ op = [t \in Tasks |-> "none"]
    /\ msg = [t \in Tasks |-> 0]
    /\ history = [t \in Tasks |-> << >>]
    /\ obj = [t \in Tasks |-> None]
    /\ done = [op |-> "none", n |-> 0, res |-> Returned, repeat |-> FALSE]

\* A new call is made by the first task that runs none.
Free(t) ==
    /\ pc[t] = "idle"
    /\ \A u \in Tasks : u < t => pc[u] # "idle"
    /\ ncalls < MaxCalls

\* Task t's operation o (chat call n, or 0) ends with result r. `repeat`
\* records a call that ran from start to end in this one step, right after a
\* call of the same operation had ended, with no call in flight.
Finish(t, o, n, r) ==
    /\ pc' = [pc EXCEPT ![t] = "idle"]
    /\ op' = [op EXCEPT ![t] = "none"]
    /\ msg' = [msg EXCEPT ![t] = 0]
    /\ obj' = [obj EXCEPT ![t] = None]
    /\ done' = [op |-> o, n |-> n, res |-> r,
                repeat |-> (o = done.op /\ \A u \in Tasks : pc[u] = "idle")]

\* Task t, running operation o (chat call n, or 0), suspends at await `at`
\* on object x.
Await(t, o, n, at, x) ==
    /\ pc' = [pc EXCEPT ![t] = at]
    /\ op' = [op EXCEPT ![t] = o]
    /\ msg' = [msg EXCEPT ![t] = n]
    /\ obj' = [obj EXCEPT ![t] = x]
    /\ done' = done

\* --- initialize (lines 96-141), cut at its four awaits

\* lines 99-114: the model object and the stdio client are created.
InitBegin(s, id) == [s EXCEPT !.chat_model = 1, !.mcp_client = id]

\* InitFail, had the except branch left out line 140.
InitFailKeepsReady(s) == s

\* lines 138-141: the except branch; the exception is raised again.
InitFail(s) == [s EXCEPT !.ready = FALSE]

\* lines 115-116: the streams and the session object are stored.
InitOpened(s, id) == [s EXCEPT !.mcp_read = id, !.mcp_write = id, !.mcp_session = id]

\* line 123: the capability list is stored.
InitTools(s, tl) == [s EXCEPT !.mcp_tools = SomeTools(tl)]

\* InitReady, had it started the memory over with the system message.
InitReadyResets(s, a) ==
    [s EXCEPT !.agent = a,
              !.ready = TRUE,
              !.memory = IF s.system_message
                         THEN << SystemMessage(SystemText) >>
                         ELSE s.memory]

\* lines 131-136: the agent is stored, ready is set, the system message appended.
InitReady(s, a) ==
    [s EXCEPT !.agent = a,
              !.ready = TRUE,
              !.memory = IF s.system_message
                         THEN Append(s.memory, SystemMessage(SystemText))
                         ELSE s.memory]

\* The owners of the memory InitReady leaves.
InitOwner(s, own) == IF s.system_message THEN Append(own, 0) ELSE own

\* --- chat (lines 143-175)

\* lines 147-158 up to the await of agent.ainvoke, on chatbot s: the chat call
\* number n of task t reads the history, appends its user message and calls
\* the agent (an agent of None raises inside the try block).
ChatBody(t, n, s, own) ==
    IF ~s.ready
    THEN /\ self' = s
         /\ owner' = own
         /\ history' = history
         /\ Finish(t, "chat", n, NotReady)
    ELSE /\ self' = [s EXCEPT !.memory = Append(s.memory, HumanMessage(n))]
         /\ owner' = Append(own, n)
         /\ IF s.agent = None
            THEN /\ history' = history
                 /\ Finish(t, "chat", n, ErrorText)
            ELSE /\ history' = [history EXCEPT ![t] = s.memory]
                 /\ Await(t, "chat", n, "c_invoke", s.agent)

\* initialize() is called directly.
InitializeStart(t) ==
    /\ UNCHANGED notbot
    /\ Free(t)
    /\ ncalls' = ncalls + 1
    /\ self' = InitBegin(self, nclients + 1)
    /\ tstate' = [tstate EXCEPT ![nclients + 1] = "new"]
    /\ nclients' = nclients + 1
    /\ Await(t, "initialize", 0, "i_open", nclients + 1)
    /\ UNCHANGED << owner, sstate, nchats, history >>

\* chat(message) is called: lines 144-145 start initialize when not ready.
ChatStart(t) ==
    /\ UNCHANGED notbot
    /\ Free(t)
    /\ ncalls' = ncalls + 1
    /\ nchats' = nchats + 1
    /\ IF ~self.ready
       THEN /\ self' = InitBegin(self, nclients + 1)
            /\ tstate' = [tstate EXCEPT ![nclients + 1] = "new"]
            /\ nclients' = nclients + 1
            /\ Await(t, "chat", nchats + 1, "i_open", nclients + 1)
            /\ UNCHANGED << owner, history >>
       ELSE /\ ChatBody(t, nchats + 1, self, owner)
            /\ UNCHANGED << tstate, nclients >>
    /\ UNCHANGED sstate

\* line 115: the stdio client's __aenter__ completes. A failure leaves
\* initialize through the except branch, and chat through line 145.
OpenDone(t, ok) ==
    /\ UNCHANGED notbot
    /\ pc[t] = "i_open"
    /\ ncalls' = ncalls
    /\ IF ok
       THEN /\ tstate' = [tstate EXCEPT ![obj[t]] = "open"]
            /\ sstate' = [sstate EXCEPT ![obj[t]] = "new"]
            /\ self' = InitOpened(self, obj[t])
            /\ Await(t, op[t], msg[t], "i_sess", obj[t])
       ELSE /\ tstate' = [tstate EXCEPT ![obj[t]] = "failed"]
            /\ sstate' = sstate
            /\ self' = InitFail(self)
            /\ Finish(t, op[t], msg[t], Raised)
    /\ UNCHANGED << owner, nclients, nchats, history >>

\* line 117: the session's __aenter__ completes (it can succeed only on a
\* session nothing has entered or closed yet); line 120 then calls
\* initialize() on whatever self.mcp_session holds now (None, after a
\* cleanup that ran meanwhile, raises AttributeError).
SessDone(t, ok) ==
    /\ UNCHANGED notbot
    /\ pc[t] = "i_sess"
    /\ ncalls' = ncalls
    /\ ok => sstate[obj[t]] = "new"
    /\ IF ok
       THEN /\ sstate' = [sstate EXCEPT ![obj[t]] = "open"]
            /\ IF self.mcp_session = None
               THEN /\ self' = InitFail(self)
                    /\ Finish(t, op[t], msg[t], Raised)
               ELSE /\ self' = self
                    /\ Await(t, op[t], msg[t], "i_hand", self.mcp_session)
       ELSE /\ sstate' = [sstate EXCEPT ![obj[t]] =
                             IF @ = "new" THEN "failed" ELSE @]
            /\ self' = InitFail(self)
            /\ Finish(t, op[t], msg[t], Raised)
    /\ UNCHANGED << owner, tstate, nclients, nchats, history >>

\* A request on session sid can be answered: the session and its transport
\* are open.
Live(sid) == sid # None /\ sstate[sid] = "open" /\ tstate[sid] = "open"

\* line 120: the protocol initialization completes; line 123 then calls
\* load_mcp_tools on whatever self.mcp_session holds now.
HandDone(t, ok) ==
    /\ UNCHANGED notbot
    /\ pc[t] = "i_hand"
    /\ ncalls' = ncalls
    /\ ok => Live(obj[t])
    /\ IF ok
       THEN /\ self' = self
            /\ Await(t, op[t], msg[t], "i_tools", self.mcp_session)
       ELSE /\ self' = InitFail(self)
            /\ Finish(t, op[t], msg[t], Raised)
    /\ UNCHANGED << owner, tstate, sstate, nclients, nchats, history >>

\* line 123: load_mcp_tools completes with the list tl; lines 131-136 build
\* the agent (agentOk: create_react_agent succeeds) and set ready. When chat
\* called initialize, chat goes on at line 147 without suspending.
ToolsDone(t, ok, tl, agentOk) ==
    /\ UNCHANGED notbot
    /\ pc[t] = "i_tools"
    /\ ncalls' = ncalls
    /\ ok => Live(obj[t])
    /\ IF ~ok
       THEN /\ self' = InitFail(self)
            /\ Finish(t, op[t], msg[t], Raised)
            /\ UNCHANGED << owner, history >>
       ELSE IF ~agentOk
       THEN /\ self' = InitFail(InitTools(self, tl))
            /\ Finish(t, op[t], msg[t], Raised)
            /\ UNCHANGED << owner, history >>
       ELSE IF op[t] = "chat"
       THEN ChatBody(t, msg[t], InitReady(InitTools(self, tl), obj[t]),
                     InitOwner(self, owner))
       ELSE /\ self' = InitReady(InitTools(self, tl), obj[t])
            /\ owner' = InitOwner(self, owner)
            /\ Finish(t, "initialize", 0, Returned)
            /\ UNCHANGED history
    /\ UNCHANGED << tstate, sstate, nclients, nchats >>

\* What chat appends for the agent's response resp (lines 162-168): every
\* assistant or tool message with content, in the response's order.
Appended(resp) ==
    SelectSeq(resp, LAMBDA m : m.role \in {"ai", "tool"} /\ m.content # 0)

\* response_content after the loop (lines 161-165): the content of the last
\* assistant message with content, or the empty string.
RECURSIVE ResponseContent(_)
ResponseContent(resp) ==
    IF resp = << >> THEN 0
    ELSE IF resp[Len(resp)].role = "ai" /\ resp[Len(resp)].content # 0
         THEN resp[Len(resp)].content
         ELSE ResponseContent(SubSeq(resp, 1, Len(resp) - 1))

\* The agent's response to the messages inp (line 155: the history read at
\* line 150 and the user message): the messages it was given, followed by
\* the new ones. Of the messages given, chat's loop looks only at the
\* assistant and tool messages.
AgentResponse(inp, new) == inp \o new

\* InvokeDone, had the except branch of lines 172-175 marked the chatbot as
\* not ready.
InvokeDoneNotReady(t, ok, new) ==
    /\ UNCHANGED notbot
    /\ pc[t] = "c_invoke"
    /\ new \in AgentNew(msg[t])
    /\ ncalls' = ncalls
    /\ IF ok
       THEN LET resp == AgentResponse(Append(history[t], HumanMessage(msg[t])), new)
            IN /\ self' = [self EXCEPT !.memory = self.memory \o Appended(resp)]
               /\ owner' = owner \o [i \in 1..Len(Appended(resp)) |-> msg[t]]
               /\ Finish(t, "chat", msg[t], Content(ResponseContent(resp)))
       ELSE /\ self' = [self EXCEPT !.ready = FALSE]
            /\ owner' = owner
            /\ Finish(t, "chat", msg[t], ErrorText)
    /\ history' = [history EXCEPT ![t] = << >>]
    /\ UNCHANGED << tstate, sstate, nclients, nchats >>

\* line 158: agent.ainvoke completes, with a response (lines 161-170) or with
\* an exception (lines 172-175).
InvokeDone(t, ok, new) ==
    /\ UNCHANGED notbot
    /\ pc[t] = "c_invoke"
    /\ new \in AgentNew(msg[t])
    /\ ncalls' = ncalls
    /\ IF ok
       THEN LET resp == AgentResponse(Append(history[t], HumanMessage(msg[t])), new)
            IN /\ self' = [self EXCEPT !.memory = self.memory \o Appended(resp)]
               /\ owner' = owner \o [i \in 1..Len(Appended(resp)) |-> msg[t]]
               /\ Finish(t, "chat", msg[t], Content(ResponseContent(resp)))
       ELSE /\ self' = self
            /\ owner' = owner
            /\ Finish(t, "chat", msg[t], ErrorText)
    /\ history' = [history EXCEPT ![t] = << >>]
    /\ UNCHANGED << tstate, sstate, nclients, nchats >>

\* --- cleanup (lines 177-194, and BaseChatbot.cleanup, lines 51-53)

\* ClearFields, had it left out line 189.
ClearFieldsKeepsSession(s) ==
    [s EXCEPT !.chat_model = None, !.mcp_read = None,
              !.mcp_write = None, !.mcp_tools = NoTools, !.agent = None,
              !.ready = FALSE]

\* lines 188-194
ClearFields(s) ==
    [s EXCEPT !.chat_model = None, !.mcp_session = None, !.mcp_read = None,
              !.mcp_write = None, !.mcp_tools = NoTools, !.agent = None,
              !.ready = FALSE]

\* line 53: a fresh memory.
NewMemory(s) == [s EXCEPT !.memory = << >>]

\* line 181: the session is closed only when one is held.
HoldsSession(s) == s.mcp_session # None

\* cleanup() is called: line 178, then line 181.
CleanupStart(t) ==
    /\ UNCHANGED notbot
    /\ Free(t)
    /\ ncalls' = ncalls + 1
    /\ owner' = << >>
    /\ IF HoldsSession(self)
       THEN /\ self' = NewMemory(self)
            /\ Await(t, "cleanup", 0, "k_sess", self.mcp_session)
       ELSE /\ self' = ClearFields(NewMemory(self))
            /\ Finish(t, "cleanup", 0, Returned)
    /\ UNCHANGED << tstate, sstate, nclients, nchats, history >>

\* SessExitDone, had lines 182-186 not caught the exception of the close.
SessExitDoneUncaught(t, ok) ==
    /\ UNCHANGED notbot
    /\ pc[t] = "k_sess"
    /\ ncalls' = ncalls
    /\ IF ok
       THEN /\ sstate' = [sstate EXCEPT ![obj[t]] = "closed"]
            /\ self' = self
            /\ Await(t, "cleanup", 0, "k_client", self.mcp_client)
       ELSE /\ sstate' = sstate
            /\ self' = self
            /\ Finish(t, "cleanup", 0, Raised)
    /\ UNCHANGED << owner, tstate, nclients, nchats, history >>

\* line 183: the session's __aexit__ completes; on success line 184 closes
\* the client self.mcp_client holds now, on failure (an Exception, caught at
\* line 185) lines 186-194 follow.
SessExitDone(t, ok) ==
    /\ UNCHANGED notbot
    /\ pc[t] = "k_sess"
    /\ ncalls' = ncalls
    /\ IF ok
       THEN /\ sstate' = [sstate EXCEPT ![obj[t]] = "closed"]
            /\ self' = self
            /\ Await(t, "cleanup", 0, "k_client", self.mcp_client)
       ELSE /\ sstate' = sstate
            /\ self' = ClearFields(self)
            /\ Finish(t, "cleanup", 0, Returned)
    /\ UNCHANGED << owner, tstate, nclients, nchats, history >>

\* line 184: the client's __aexit__ completes (it can succeed only on an
\* open client); lines 188-194 follow either way.
ClientExitDone(t, ok) ==
    /\ UNCHANGED notbot
    /\ pc[t] = "k_client"
    /\ ncalls' = ncalls
    /\ ok => tstate[obj[t]] = "open"
    /\ tstate' = IF ok THEN [tstate EXCEPT ![obj[t]] = "closed"] ELSE tstate
    /\ self' = ClearFields(self)
    /\ Finish(t, "cleanup", 0, Returned)
    /\ UNCHANGED << owner, sstate, nclients, nchats, history >>

\* --- the synchronous operations

\* get_history (lines 55-58)
GetHistory(t) ==
    /\ UNCHANGED notbot
    /\ Free(t)
    /\ ncalls' = ncalls + 1
    /\ Finish(t, "get_history", 0, ListResult(self.memory))
    /\ UNCHANGED << self, owner, tstate, sstate, nclients, nchats, history >>

\* ClearHistory, had it reset the chatbot the way cleanup does (lines 188-194).
ClearHistoryResets(t) ==
    /\ UNCHANGED notbot
    /\ Free(t)
    /\ ncalls' = ncalls + 1
    /\ self' = ClearFields([self EXCEPT !.memory = << >>])
    /\ owner' = << >>
    /\ Finish(t, "clear_history", 0, Returned)
    /\ UNCHANGED << tstate, sstate, nclients, nchats, history >>

\* clear_history (lines 60-62)
ClearHistory(t) ==
    /\ UNCHANGED notbot
    /\ Free(t)
    /\ ncalls' = ncalls + 1
    /\ self' = [self EXCEPT !.memory = << >>]
    /\ owner' = << >>
    /\ Finish(t, "clear_history", 0, Returned)
    /\ UNCHANGED << tstate, sstate, nclients, nchats, history >>

\* get_available_tools (lines 196-208)
AvailableTools(s) == IF s.mcp_tools = NoTools THEN << >> ELSE s.mcp_tools[1]

GetAvailableTools(t) ==
    /\ UNCHANGED notbot
    /\ Free(t)
    /\ ncalls' = ncalls + 1
    /\ Finish(t, "get_available_tools", 0, ListResult(AvailableTools(self)))
    /\ UNCHANGED << self, owner, tstate, sstate, nclients, nchats, history >>

BotNext ==
    \/ \E t \in Tasks : InitializeStart(t)
    \/ \E t \in Tasks : ChatStart(t)
    \/ \E t \in Tasks, ok \in BOOLEAN : OpenDone(t, ok)
    \/ \E t \in Tasks, ok \in BOOLEAN : SessDone(t, ok)
    \/ \E t \in Tasks, ok \in BOOLEAN : HandDone(t, ok)
    \/ \E t \in Tasks, ok \in BOOLEAN, tl \in ToolLists, agentOk \in BOOLEAN :
           ToolsDone(t, ok, tl, agentOk)
    \/ \E t \in Tasks, ok \in BOOLEAN, new \in AgentNews : InvokeDone(t, ok, new)
    \/ \E t \in Tasks : CleanupStart(t)
    \/ \E t \in Tasks, ok \in BOOLEAN : SessExitDone(t, ok)
    \/ \E t \in Tasks, ok \in BOOLEAN : ClientExitDone(t, ok)
    \/ \E t \in Tasks : GetHistory(t)
    \/ \E t \in Tasks : ClearHistory(t)
    \/ \E t \in Tasks : GetAvailableTools(t)

\* ------------------------------------------------------- OllamaToolManager
\* process_prompt (src/ollama_tool_use.py, lines 138-158): one request to the
\* backend, then the reply's tool calls are dispatched.

\* tool calls in one reply of the backend
MaxToolCalls == 2

\* The keys of available_functions (lines 9-15).
available_functions ==
    {"get_stock_price", "request", "add_numbers", "subtract_numbers", "arithmetic"}

\* The function names a reply may carry: registered ones and one that is not.
ToolNames == {"get_stock_price", "add_numbers", "arithmetic", "no_such_tool"}

\* The arguments of a tool call, by what they do to the call: "ok" (accepted,
\* and the function succeeds on them), "unaccepted" (keywords the function's
\* signature does not take) and "faulty" (accepted, but the function's body
\* fails on them: no price data for the symbol, a = "x").
ArgKinds == {"ok", "unaccepted", "faulty"}

ToolCalls == [name : ToolNames, arguments : ArgKinds]

\* Sequences of tool calls of length 0..n.
CallSeqs(n) == UNION { [1..k -> ToolCalls] : k \in 0..n }

\* function_to_call(**arguments), line 153: what the call of a registered
\* function yields. Unaccepted keywords raise TypeError at the call itself.
\* get_stock_price raises when it finds no price (line 36); add_numbers and
\* subtract_numbers raise on operands they cannot add; arithmetic (lines
\* 49-63) and request (lines 77-82) catch their failures and return a text.
CallFunction(c) ==
    IF c.arguments = "unaccepted" THEN "raised"
    ELSE IF c.arguments = "ok" THEN "value"
    ELSE IF c.name \in {"arithmetic", "request"} THEN "error_text"
    ELSE "raised"

\* Dispatch, had the else branch of lines 156-157 ended the loop.
RECURSIVE DispatchStopsAtMiss(_, _, _)
DispatchStopsAtMiss(calls, i, inv) ==
    IF i > Len(calls) THEN [invoked |-> inv, result |-> "None"]
    ELSE IF calls[i].name \in available_functions
         THEN [invoked |-> Append(inv, i), result |-> CallFunction(calls[i])]
         ELSE [invoked |-> inv, result |-> "None"]

\* The loop of lines 149-157 over the calls from index i on, `inv` being the
\* indices invoked so far: a registered name is called and its result
\* returned at once (line 155); an exception of the function leaves
\* process_prompt; an unregistered name is reported and skipped. After the
\* loop: None (line 158).
RECURSIVE Dispatch(_, _, _)
Dispatch(calls, i, inv) ==
    IF i > Len(calls) THEN [invoked |-> inv, result |-> "None"]
    ELSE IF calls[i].name \in available_functions
         THEN [invoked |-> Append(inv, i), result |-> CallFunction(calls[i])]
         ELSE Dispatch(calls, i + 1, inv)

\* line 157: the indices, from i on, of the calls the loop of lines 149-157
\* reports as not found: the unregistered names it comes to before it returns.
RECURSIVE NotFound(_, _)
NotFound(calls, i) ==
    IF i > Len(calls) THEN << >>
    ELSE IF calls[i].name \in available_functions THEN << >>
         ELSE << i >> \o NotFound(calls, i + 1)

TmInit ==
    /\ tm_pc = "idle"
    /\ tm_roundtrips = 0
    /\ tm_calls = << >>
    /\ tm_invoked = << >>
    /\ tm_notfound = << >>
    /\ tm_result = "None"

\* process_prompt is called: lines 140-146 send the prompt to the backend.
PromptStart ==
    /\ UNCHANGED nottool
    /\ tm_pc \in {"idle", "done"}
    /\ tm_pc' = "waiting"
    /\ tm_roundtrips' = 1
    /\ tm_calls' = << >>
    /\ tm_invoked' = << >>
    /\ tm_notfound' = << >>
    /\ tm_result' = "None"

\* PromptReply, had process_prompt sent the result of a called function back
\* to the backend for another reply (a turn loop without a bound).
PromptReplyLoops(calls) ==
    /\ UNCHANGED nottool
    /\ tm_pc = "waiting"
    /\ tm_calls' = calls
    /\ tm_invoked' = Dispatch(calls, 1, << >>).invoked
    /\ tm_notfound' = NotFound(calls, 1)
    /\ tm_result' = Dispatch(calls, 1, << >>).result
    /\ IF Dispatch(calls, 1, << >>).result \in {"value", "error_text"}
       THEN tm_pc' = "waiting" /\ tm_roundtrips' = tm_roundtrips + 1
       ELSE tm_pc' = "done" /\ tm_roundtrips' = tm_roundtrips

\* ollama.chat returns a reply carrying the tool calls `calls`; lines 148-158.
PromptReply(calls) ==
    /\ UNCHANGED nottool
    /\ tm_pc = "waiting"
    /\ tm_pc' = "done"
    /\ tm_calls' = calls
    /\ tm_invoked' = Dispatch(calls, 1, << >>).invoked
    /\ tm_notfound' = NotFound(calls, 1)
    /\ tm_result' = Dispatch(calls, 1, << >>).result
    /\ UNCHANGED tm_roundtrips

\* ollama.chat raises (the backend cannot be reached): nothing catches it.
PromptBackendError ==
    /\ UNCHANGED nottool
    /\ tm_pc = "waiting"
    /\ tm_pc' = "done"
    /\ tm_result' = "raised"
    /\ UNCHANGED << tm_roundtrips, tm_calls, tm_invoked, tm_notfound >>

TmNext ==
    \/ PromptStart
    \/ \E calls \in CallSeqs(MaxToolCalls) : PromptReply(calls)
    \/ PromptBackendError

\* ------------------------------------------------------------ create_agents
\* (src/ollama_mcp.py, lines 10-31)

\* entries of mcpServers in one configuration file
MaxServers == 2

ServerNames == {"calc", "web", "airbnb"}

\* An entry of mcpServers, by what create_agents reads of it: the value of
\* its 'active' key ("absent": no such key), the required key it lacks
\* ("none": it has command, args and instructions), and whether MCP(...) and
\* Agent(...) can be constructed for it.
Entries ==
    [ name     : ServerNames,
      active   : {"true", "false", "absent"},
      missing  : {"none", "command", "args", "instructions"},
      launches : BOOLEAN ]

\* The configurations of k entries, in the file's order; a JSON object's keys
\* are distinct.
Configs(k) == [1..k -> Entries]

DistinctNames(c) == \A i, j \in 1..Len(c) : i # j => c[i].name # c[j].name

\* IsActive, had the default of line 15 been True.
IsActiveByDefault(e) == e.active # "false"

\* line 15: server_config.get('active', False)
IsActive(e) == e.active = "true"

\* lines 14-31: the loop over the entries from index i on, with the agents
\* built so far. An inactive entry is skipped; reading a missing key raises
\* KeyError (lines 19, 20, 25) and a failing MCP(...) or Agent(...) raises,
\* and nothing catches either.
RECURSIVE BuildAgents(_, _, _)
BuildAgents(config, i, agents) ==
    IF i > Len(config) THEN [raised |-> FALSE, agents |-> agents]
    ELSE IF ~IsActive(config[i]) THEN BuildAgents(config, i + 1, agents)
    ELSE IF config[i].missing # "none" \/ ~config[i].launches
         THEN [raised |-> TRUE, agents |-> agents]
         ELSE BuildAgents(config, i + 1, Append(agents, config[i].name))

CaInit ==
    /\ ca_pc = "idle"
    /\ ca_config = << >>
    /\ ca_result = [raised |-> FALSE, agents |-> << >>]

\* create_agents() runs (once, from the main block, line 35) on a
\* configuration file of k entries.
CreateAgents(k) ==
    /\ ca_pc = "idle"
    /\ \E config \in Configs(k) :
          /\ DistinctNames(config)
          /\ ca_config' = config
          /\ ca_result' = BuildAgents(config, 1, << >>)
    /\ ca_pc' = "done"
    /\ UNCHANGED notagents

CaNext == \E k \in 0..MaxServers : CreateAgents(k)

\* ------------------------------------------------------ the interactive runner
\* main (src/run_ollama_mcp.py, lines 10-78). The chatbot it drives is
\* ollama_mcp_adapter.OllamaMCPChatbot, whose code is not among the sources:
\* its mcp_manager.list_tools, chat_stream and cleanup are modelled from the
\* design (sections 4.2 and 6).

\* lines main reads from the user in one run
MaxInputs == 2

\* What input() yields at line 57: a message, the exit token, Ctrl-C
\* (KeyboardInterrupt) or the end of the input (EOFError).
UserInputs == {"text", "exit", "interrupt", "eof"}

MainInit ==
    /\ mn_pc = "start"
    /\ mn_init = "pending"
    /\ mn_out = << >>
    /\ mn_inputs = 0
    /\ mn_cleanups = 0

\* The finally block is entered (lines 74-77): cleanup() is called.
MainFinally(out) ==
    /\ mn_out' = Append(out, "cleaning_up")
    /\ mn_cleanups' = mn_cleanups + 1
    /\ mn_pc' = "cleanup"

\* lines 12-23: the chatbot is constructed and initialize() is called.
MainStart ==
    /\ UNCHANGED notmain
    /\ mn_pc = "start"
    /\ mn_pc' = "init"
    /\ mn_out' = Append(mn_out, "initializing")
    /\ UNCHANGED << mn_init, mn_inputs, mn_cleanups >>

\* MainInitDone, had the try of lines 22-27 not been there: the exception of
\* initialize reaches the finally block of line 74.
MainInitDoneUncaught(ok) ==
    /\ UNCHANGED notmain
    /\ mn_pc = "init"
    /\ mn_init' = IF ok THEN "ok" ELSE "failed"
    /\ IF ok
       THEN /\ mn_out' = Append(mn_out, "completed")
            /\ mn_pc' = "list"
            /\ UNCHANGED mn_cleanups
       ELSE MainFinally(mn_out)
    /\ UNCHANGED mn_inputs

\* line 23: initialize() ends; an exception is caught and reported (lines
\* 25-27); either way line 30 asks for the tools.
MainInitDone(ok) ==
    /\ UNCHANGED notmain
    /\ mn_pc = "init"
    /\ mn_init' = IF ok THEN "ok" ELSE "failed"
    /\ mn_out' = IF ok THEN Append(mn_out, "completed")
                       ELSE mn_out \o << "warning", "continuing" >>
    /\ mn_pc' = "list"
    /\ UNCHANGED << mn_inputs, mn_cleanups >>

\* What mcp_manager.list_tools() yields (design, 4.2 capabilities): the
\* tools of the servers that are ready, none when no server is; it does not
\* raise.
ListToolsResults == {"no_tools", "tools"}

\* How the iteration over chat_stream ends (design, 4.3 and 7): with the
\* chunks of the answer, or with an exception.
ChatStreamResults == {"chunks", "raised"}

\* line 30: list_tools() returns; lines 32-53 print the tools and the
\* banner, and the loop of line 55 is entered.
MainListDone(tools) ==
    /\ UNCHANGED notmain
    /\ mn_pc = "list"
    /\ mn_out' = mn_out \o << tools, "banner" >>
    /\ mn_pc' = "input"
    /\ UNCHANGED << mn_init, mn_inputs, mn_cleanups >>

\* line 57: input() ends. The exit token (line 58) and Ctrl-C (lines 68-70)
\* leave the loop for the finally block; the end of the input is an
\* Exception, reported at lines 71-72, and the loop goes on; a message is
\* passed to chat_stream (line 63).
MainInput(inp) ==
    /\ UNCHANGED notmain
    /\ mn_pc = "input"
    /\ mn_inputs < MaxInputs
    /\ mn_inputs' = mn_inputs + 1
    /\ CASE inp = "exit" ->
              /\ MainFinally(mn_out)
         [] inp = "interrupt" ->
              /\ MainFinally(Append(mn_out, "exiting"))
         [] inp = "eof" ->
              /\ mn_out' = Append(mn_out, "error")
              /\ mn_pc' = "input"
              /\ UNCHANGED mn_cleanups
         [] inp = "text" ->
              /\ mn_out' = Append(mn_out, "bot")
              /\ mn_pc' = "stream"
              /\ UNCHANGED mn_cleanups
    /\ UNCHANGED mn_init

\* lines 63-66 and 71-72: the stream ends, or raises an Exception, which is
\* reported; the loop goes on.
MainStreamDone(res) ==
    /\ UNCHANGED notmain
    /\ mn_pc = "stream"
    /\ mn_out' = Append(mn_out, IF res = "chunks" THEN "chunks" ELSE "error")
    /\ mn_pc' = "input"
    /\ UNCHANGED << mn_init, mn_inputs, mn_cleanups >>

\* line 77: cleanup() returns (design, 4.2 shutdownAll: it does not raise);
\* line 78.
MainCleanupDone ==
    /\ UNCHANGED notmain
    /\ mn_pc = "cleanup"
    /\ mn_out' = Append(mn_out, "goodbye")
    /\ mn_pc' = "done"
    /\ UNCHANGED << mn_init, mn_inputs, mn_cleanups >>

MainNext ==
    \/ MainStart
    \/ \E ok \in BOOLEAN : MainInitDone(ok)
    \/ \E tools \in ListToolsResults : MainListDone(tools)
    \/ \E inp \in UserInputs : MainInput(inp)
    \/ \E res \in ChatStreamResults : MainStreamDone(res)
    \/ MainCleanupDone

\* ----------------------------------------------------------- specifications

\* The chatbot and its callers.
BotInit == Init /\ TmInit /\ CaInit /\ MainInit

Next == BotNext

Spec == BotInit /\ [][Next]_vars

\* process_prompt alone.
ToolInit == self = NewChatbot(FALSE) /\ Init /\ TmInit /\ CaInit /\ MainInit

SpecTool == ToolInit /\ [][TmNext]_vars

\* create_agents alone.
AgentsInit == self = NewChatbot(FALSE) /\ Init /\ TmInit /\ CaInit /\ MainInit

SpecAgents == AgentsInit /\ [][CaNext]_vars

\* main of the runner alone. A call main awaits and the user's input end,
\* one way or the other, so main goes on while it has a step to take and has
\* not read its last line.
RunnerInit == self = NewChatbot(TRUE) /\ Init /\ TmInit /\ CaInit /\ MainInit

MainFairness ==
    /\ WF_vars(MainStart)
    /\ WF_vars(\E ok \in BOOLEAN : MainInitDone(ok))
    /\ WF_vars(\E tools \in ListToolsResults : MainListDone(tools))
    /\ WF_vars(\E res \in ChatStreamResults : MainStreamDone(res))
    /\ WF_vars(MainCleanupDone)

SpecMain == RunnerInit /\ [][MainNext]_vars /\ MainFairness

\* ------------------------------------------------------------------ claims

IsPrefix(a, b) == Len(a) <= Len(b) /\ SubSeq(b, 1, Len(a)) = a

Range(q) == { q[i] : i \in 1..Len(q) }

AllIdle == \A t \in Tasks : pc[t] = "idle"

\* C1: chat never lets an exception reach its caller: whenever a chat call
\* has ended, it returned a text.
C1_ChatReturnsText == done.op = "chat" => IsText(done.res)

C3_TurnsContiguous ==
    \A i, j, k \in 1..Len(owner) :
        (i < j /\ j < k /\ owner[i] # 0 /\ owner[i] = owner[k])
            => owner[j] \in {0, owner[i]}

\* C4, as claimed: every step but clear_history leaves the history it found
\* as a prefix of the history it leaves.
C4_OnlyClearHistoryClears ==
    [][ \/ \E t \in Tasks : ClearHistory(t)
        \/ IsPrefix(self.memory, self'.memory) ]_vars

\* C4, as amended: every step but clear_history and the start of cleanup
\* (which replaces the memory by a fresh one) leaves the history it found as
\* a prefix of the history it leaves.
C4_AppendOnly ==
    [][ \/ \E t \in Tasks : ClearHistory(t)
        \/ \E t \in Tasks : CleanupStart(t)
        \/ IsPrefix(self.memory, self'.memory) ]_vars

C4_Witness ==
    /\ done.op = "chat"
    /\ done.res.kind = "content"
    /\ Len(self.memory) >= 4
    /\ ncalls = MaxCalls

\* The indices of the tool calls whose name is registered, in order.
RECURSIVE Resolved(_, _)
Resolved(calls, i) ==
    IF i > Len(calls) THEN << >>
    ELSE IF calls[i].name \in available_functions
         THEN << i >> \o Resolved(calls, i + 1)
         ELSE Resolved(calls, i + 1)

\* C5: when every function succeeds, process_prompt calls the function of
\* every tool call whose name is registered, once each and in request order.
C5_EveryResolvedCallInvoked ==
    (/\ tm_pc = "done"
     /\ tm_calls # << >>
     /\ \A i \in 1..Len(tm_calls) : tm_calls[i].arguments = "ok")
        => tm_invoked = Resolved(tm_calls, 1)

\* C6: a failure of a called function does not leave process_prompt as an
\* exception.
C6_ToolFailureCaught ==
    (tm_pc = "done" /\ tm_invoked # << >>) => tm_result # "raised"

\* The entries create_agents can build an agent for.
Buildable(config) ==
    { config[i].name : i \in { j \in 1..Len(config) :
                                 /\ config[j].active = "true"
                                 /\ config[j].missing = "none"
                                 /\ config[j].launches } }

\* C7: create_agents does not raise, and returns an agent for every active,
\* well-formed entry that can be launched, whatever the other entries are.
C7_BadEntrySkipped ==
    ca_pc = "done" =>
        /\ ~ca_result.raised
        /\ Range(ca_result.agents) = Buildable(ca_config)

WellFormed(config) ==
    \A i \in 1..Len(config) : config[i].missing = "none" /\ config[i].launches

\* C8: for well-formed entries whose launches succeed, create_agents returns
\* exactly the entries whose active flag is true.
C8_ExactlyTheActive ==
    (ca_pc = "done" /\ WellFormed(ca_config)) =>
        /\ ~ca_result.raised
        /\ Range(ca_result.agents) =
              { ca_config[i].name :
                  i \in { j \in 1..Len(ca_config) : ca_config[j].active = "true" } }
        /\ Len(ca_result.agents) = Cardinality(Range(ca_result.agents))

C8_Witness ==
    /\ ca_pc = "done"
    /\ ca_config = << [name |-> "calc", active |-> "true", missing |-> "none",
                       launches |-> TRUE],
                      [name |-> "web", active |-> "false", missing |-> "none",
                       launches |-> TRUE] >>
    /\ ca_result = [raised |-> FALSE, agents |-> << "calc" >>]

\* The fields cleanup clears.
Handles(s) ==
    << s.ready, s.mcp_session, s.mcp_read, s.mcp_write, s.mcp_tools, s.agent,
       s.chat_model >>

Closed(s) == Handles(s) = << FALSE, None, None, None, NoTools, None, None >>

\* C9: a cleanup called right after a cleanup has ended (no call in flight)
\* ends at once without awaiting a close of the session or the client,
\* returns normally and leaves the fields the first one cleared as they are.
C9_CleanupIdempotent ==
    [][ \A t \in Tasks :
          (CleanupStart(t) /\ done.op = "cleanup" /\ AllIdle)
              => /\ pc'[t] = "idle"
                 /\ done'.res = Returned
                 /\ Closed(self')
                 /\ Handles(self') = Handles(self)
                 /\ tstate' = tstate /\ sstate' = sstate ]_vars

C9_Witness ==
    /\ done.op = "cleanup" /\ done.repeat
    /\ AllIdle
    /\ \E i \in Ids : tstate[i] = "closed" /\ sstate[i] = "closed"
    /\ Closed(self)

\* Task t's cleanup ends in this step.
CleanupEnds(t) ==
    /\ pc'[t] = "idle"
    /\ done'.op = "cleanup"
    /\ \/ pc[t] \in {"k_sess", "k_client"}
       \/ pc[t] = "idle" /\ ncalls' = ncalls + 1 /\ \A u \in Tasks : pc'[u] = pc[u]

\* C10: whatever state cleanup is called in and however the closes end, when
\* cleanup ends it returns normally and ready is false and mcp_session,
\* mcp_read, mcp_write, mcp_tools, agent and chat_model are cleared.
C10_CleanupCloses ==
    [][ \A t \in Tasks :
          CleanupEnds(t) => Closed(self') /\ done'.res = Returned ]_vars

C10_Witness ==
    /\ done.op = "cleanup"
    /\ AllIdle
    /\ Closed(self)
    /\ \E i \in Ids : sstate[i] = "open" /\ tstate[i] = "open"

\* The stdio clients that are open: entered, and not closed since.
OpenTransports == { i \in Ids : tstate[i] = "open" }

\* C11: once a cleanup has returned and no call is in flight, every transport
\* an earlier initialize opened has been closed.
C11_CleanupReleasesTransports ==
    (done.op = "cleanup" /\ AllIdle) => OpenTransports = {}

\* C12: at most one transport is open at any time.
C12_AtMostOneTransport == Cardinality(OpenTransports) <= 1

\* C13: get_available_tools returns a non-empty list only when ready is true.
C13_NoToolsUnlessReady == AvailableTools(self) # << >> => self.ready

\* The awaits of initialize (lines 115, 117, 120, 123).
InitPcs == {"i_open", "i_sess", "i_hand", "i_tools"}

\* C14: a run of initialize (called directly, or by chat at line 145) ends in
\* one of two ways. Either it has passed every await and built the agent, on
\* an open session over an open transport: then ready is true, the capability
\* list and the agent are stored and the call returns (chat goes on to the
\* agent). Or a step failed: then ready is false and the exception reaches
\* the caller.
C14_ReadyIffAllSteps ==
    [][ \A t \in Tasks :
          (pc[t] \in InitPcs /\ pc'[t] \notin InitPcs) =>
              \/ /\ pc[t] = "i_tools"
                 /\ Live(obj[t])
                 /\ self'.ready
                 /\ self'.mcp_tools # NoTools
                 /\ self'.agent # None
                 /\ IF op[t] = "initialize"
                    THEN pc'[t] = "idle" /\ done'.op = "initialize" /\ done'.res = Returned
                    ELSE pc'[t] = "c_invoke"
              \/ /\ ~self'.ready
                 /\ pc'[t] = "idle"
                 /\ done'.op = op[t]
                 /\ done'.res = Raised ]_vars

\* An initialize that failed at the transport, then one that succeeded.
C14_Witness ==
    /\ done.op = "initialize" /\ done.res = Returned
    /\ self.ready
    /\ self.mcp_tools = SomeTools(<< "calculate" >>)
    /\ tstate[1] = "failed"
    /\ Live(self.mcp_session)

\* The fields that make up the state of the provider handle.
HandleState(s) == << s.ready, s.mcp_session, s.mcp_tools, s.agent >>

\* C15: the step in which chat's agent invocation ends in an exception
\* changes none of ready, mcp_session, mcp_tools and agent and closes
\* nothing, and neither does the start of a chat on a ready chatbot, which
\* goes to the agent without running initialize again.
C15_FailedInvocationKeepsHandle ==
    [][ \A t \in Tasks :
          /\ (pc[t] = "c_invoke" /\ pc'[t] = "idle" /\ done'.res = ErrorText)
                => /\ HandleState(self') = HandleState(self)
                   /\ tstate' = tstate /\ sstate' = sstate
          /\ (ChatStart(t) /\ self.ready)
                => /\ HandleState(self') = HandleState(self)
                   /\ nclients' = nclients
                   /\ pc'[t] = "c_invoke" ]_vars

\* The first chat call ended with the error text of a failed invocation, and
\* the second is at the agent, on the one client ever created.
C15_Witness ==
    /\ done.op = "chat" /\ done.n = 1 /\ done.res = ErrorText
    /\ \E t \in Tasks : pc[t] = "c_invoke" /\ msg[t] = 2
    /\ nclients = 1
    /\ self.ready

\* C16: clear_history empties the history and changes no other field of the
\* chatbot (ready, mcp_session, mcp_read, mcp_write, mcp_tools, agent,
\* chat_model, mcp_client, system_message), and closes no session and no
\* transport; get_history returns the history and changes nothing.
C16_ResetKeepsHandles ==
    [][ \A t \in Tasks :
          /\ ClearHistory(t)
                => /\ self' = [self EXCEPT !.memory = << >>]
                   /\ Handles(self') = Handles(self)
                   /\ tstate' = tstate /\ sstate' = sstate
          /\ GetHistory(t)
                => /\ self' = self
                   /\ done'.res = ListResult(self.memory)
                   /\ tstate' = tstate /\ sstate' = sstate ]_vars

\* clear_history has just emptied the history of a ready chatbot whose
\* session and transport are still open.
C16_Witness ==
    /\ done.op = "clear_history"
    /\ AllIdle
    /\ self.memory = << >>
    /\ self.ready /\ self.agent # None /\ self.mcp_tools # NoTools
    /\ Live(self.mcp_session)
    /\ nchats >= 1

\* The tool calls with a registered name, in order.
WithoutMisses(calls) ==
    SelectSeq(calls, LAMBDA c : c.name \in available_functions)

\* The tool calls whose index is in idx, in idx's order.
CallsAt(calls, idx) == [k \in 1..Len(idx) |-> calls[idx[k]]]

\* C17: for a reply with tool calls, a call whose name is not registered has
\* no function invoked for it and does not end the loop: process_prompt calls
\* the same functions and ends the same way as for the reply without the
\* unregistered calls, so an exception is always that of an invoked function;
\* every unregistered call the loop comes to is printed as not found; and
\* when no call is registered, process_prompt returns None.
C17_LookupMissSkipped ==
    (tm_pc = "done" /\ tm_calls # << >>) =>
        LET hits == WithoutMisses(tm_calls)
            d == Dispatch(hits, 1, << >>)
        IN /\ \A k \in 1..Len(tm_invoked) :
                 tm_calls[tm_invoked[k]].name \in available_functions
           /\ tm_result = d.result
           /\ CallsAt(tm_calls, tm_invoked) = CallsAt(hits, d.invoked)
           /\ (tm_result = "raised" => tm_invoked # << >>)
           /\ \A i \in 1..Len(tm_calls) :
                 (\A j \in 1..i : tm_calls[j].name \notin available_functions)
                     => i \in Range(tm_notfound)
           /\ (hits = << >> =>
                 /\ tm_result = "None"
                 /\ tm_invoked = << >>
                 /\ Len(tm_notfound) = Len(tm_calls))

\* An unregistered call followed by a registered one, which was invoked.
C17_Witness ==
    /\ tm_pc = "done"
    /\ Len(tm_calls) = 2
    /\ tm_calls[1].name = "no_such_tool"
    /\ tm_calls[2] = [name |-> "add_numbers", arguments |-> "ok"]
    /\ tm_invoked = << 2 >>
    /\ tm_notfound = << 1 >>
    /\ tm_result = "value"

\* C18: when chatbot.initialize() fails in main, the failure is printed, main
\* comes to read the user's input, the finally block is not entered before a
\* line has been read, and cleanup() is called exactly once, when the loop
\* has ended.
C18_InitFailureEntersLoop ==
    /\ [](mn_init = "failed" =>
            /\ "warning" \in Range(mn_out)
            /\ (mn_pc \in {"cleanup", "done"} => mn_inputs >= 1)
            /\ mn_cleanups = IF mn_pc \in {"cleanup", "done"} THEN 1 ELSE 0)
    /\ ((mn_init = "failed" /\ mn_pc = "list") ~> (mn_pc = "input"))

\* initialize failed, the user sent a message and then the exit token, and
\* main has ended after one cleanup.
C18_Witness ==
    /\ mn_pc = "done"
    /\ mn_init = "failed"
    /\ mn_inputs = 2
    /\ "chunks" \in Range(mn_out)
    /\ mn_cleanups = 1

\* C19: when a chat call has returned the content of the agent's response
\* and no call is in flight, the history ends with an assistant message that
\* this call appended and whose content is the string returned.
C19_ReturnsLastAppended ==
    (done.op = "chat" /\ done.res.kind = "content" /\ AllIdle) =>
        /\ self.memory # << >>
        /\ self.memory[Len(self.memory)] = AIMessage(done.res.val)
        /\ owner[Len(owner)] = done.n

\* C20: no assistant or tool message occurs twice in the history.
C20_NoMessageAppendedTwice ==
    \A i, j \in 1..Len(self.memory) :
        (i < j /\ self.memory[i].role \in {"ai", "tool"})
            => self.memory[i] # self.memory[j]

\* The indices of the history that hold a system message.
SystemAt(s) == { i \in 1..Len(s.memory) : s.memory[i].role = "system" }

\* C21: whenever the chatbot is ready and was configured with a system
\* message, the history holds that message exactly once, as its first element.
C21_SystemMessageOnceAndFirst ==
    (self.ready /\ self.system_message) =>
        /\ SystemAt(self) = {1}
        /\ self.memory[1] = SystemMessage(SystemText)

====
